---- MODULE Spec2Model ----
(***************************************************************************)
(* Burrows-Wheeler transform service (conversion_functions.py, server.py,  *)
(* client.py).  Python sequences are modelled as TLA+ sequences; Python    *)
(* indices are 0-based, so At(s, i) reads s[i] of the source.              *)
(***************************************************************************)
EXTENDS Integers, Sequences, FiniteSets, TLC

VARIABLES
    frame,         \* the locals of one direct call of a core function
    n_processes,   \* server: size of the worker pool
    tasks,         \* server: connections handed to the pool, not yet started
    conns,         \* server: per connection, the stream and handle_request's locals
    frames,        \* server: per invocation, the locals of the core call it makes
    client,        \* client: one call of validation_client, its arguments and outcome
    link           \* one connection: main of client.py, its peer, and both byte streams

vars == <<frame, n_processes, tasks, conns, frames, client, link>>

serverVars == <<n_processes, tasks, conns, frames>>

clientVars == <<client>>

sessionVars == <<link>>

(***************************************************************************)
(* Bounds of the model.                                                    *)
(***************************************************************************)
\* longest sequence handed to a core function
MaxLen == 4

\* connections the server accepts
NumConns == 2

\* largest worker pool
MaxProcesses == 2

\* longest text after the header line of an input file
MaxBodyLen == 3

\* symbols the bounded inputs are drawn from (a subset of the IUPAC codes)
Letters == {"A", "C", "T"}

Sentinel == "$"

Symbols == Letters \cup {Sentinel}

(***************************************************************************)
(* Symbols and their order.  numpy compares the one-character strings by   *)
(* code point, so '$' (36) sorts before every letter.                      *)
(***************************************************************************)
IUPAC == {"A", "C", "G", "T", "R", "Y", "S", "W", "K", "M", "B", "D", "H", "V", "N"}

CodePoint(c) ==
    CASE c = "$" -> 36
      [] c = "A" -> 65
      [] c = "B" -> 66
      [] c = "C" -> 67
      [] c = "D" -> 68
      [] c = "G" -> 71
      [] c = "H" -> 72
      [] c = "K" -> 75
      [] c = "M" -> 77
      [] c = "N" -> 78
      [] c = "R" -> 82
      [] c = "S" -> 83
      [] c = "T" -> 84
      [] c = "V" -> 86
      [] c = "W" -> 87
      [] c = "Y" -> 89
      [] c = "\n" -> 10
      [] c = " " -> 32
      [] c = ":" -> 58
      [] c = ">" -> 62
      [] c = "E" -> 69
      [] c = "F" -> 70
      [] c = "X" -> 88
      [] c = "." -> 46
      [] c = "a" -> 97
      [] c = "c" -> 99
      [] c = "d" -> 100
      [] c = "e" -> 101
      [] c = "f" -> 102
      [] c = "g" -> 103
      [] c = "h" -> 104
      [] c = "i" -> 105
      [] c = "l" -> 108
      [] c = "m" -> 109
      [] c = "n" -> 110
      [] c = "o" -> 111
      [] c = "r" -> 114
      [] c = "t" -> 116
      [] c = "x" -> 120

\* the characters the model writes, reads or sends
Chars ==
    {"$", "A", "B", "C", "D", "G", "H", "K", "M", "N", "R", "S", "T", "V", "W", "Y",
     "\n", " ", ":", ">", "E", "F", "X", ".", "a", "c", "d", "e", "f", "g", "h", "i",
     "l", "m", "n", "o", "r", "t", "x"}

OrdTable == [c \in Chars |-> CodePoint(c)]

ChrTable == [b \in {CodePoint(c) : c \in Chars} |-> CHOOSE c \in Chars : CodePoint(c) = b]

\* ord(c) and chr(b)
Ord(c) == OrdTable[c]

Chr(b) == ChrTable[b]

\* str.encode() and bytes.decode() on ASCII text
Encode(str) == [i \in 1 .. Len(str) |-> Ord(str[i])]

Decode(bytes) == [i \in 1 .. Len(bytes) |-> Chr(bytes[i])]

(***************************************************************************)
(* Python sequence helpers.                                                *)
(***************************************************************************)
At(s, i) == s[i + 1]

Last(s) == s[Len(s)]

Range0(n) == 0 .. (n - 1)

Count(s, c) == Cardinality({i \in 1 .. Len(s) : s[i] = c})

\* every sequence over S of length 0..n
SeqsUpTo(S, n) == UNION {[1 .. m -> S] : m \in 0 .. n}

(***************************************************************************)
(* np.argsort(keys, kind='mergesort'): a stable merge sort of the indices  *)
(* 0..n-1 by key.  A key is a tuple of integers compared field by field    *)
(* (order=['rank1', 'rank2']); a symbol is the one-field key <<Ord(c)>>.   *)
(***************************************************************************)
RECURSIVE KeyLess(_, _)
KeyLess(a, b) ==
    IF a = <<>> \/ b = <<>> THEN FALSE
    ELSE IF Head(a) # Head(b) THEN Head(a) < Head(b)
    ELSE KeyLess(Tail(a), Tail(b))

RECURSIVE Merge(_, _, _)
Merge(keys, l, r) ==
    IF l = <<>> THEN r
    ELSE IF r = <<>> THEN l
    ELSE IF KeyLess(At(keys, Head(r)), At(keys, Head(l)))
         THEN <<Head(r)>> \o Merge(keys, l, Tail(r))
         ELSE <<Head(l)>> \o Merge(keys, Tail(l), r)

RECURSIVE MergeSort(_, _)
MergeSort(keys, idx) ==
    IF Len(idx) <= 1 THEN idx
    ELSE LET mid == Len(idx) \div 2
         IN  Merge(keys,
                   MergeSort(keys, SubSeq(idx, 1, mid)),
                   MergeSort(keys, SubSeq(idx, mid + 1, Len(idx))))

ArgSort(keys) == MergeSort(keys, [i \in 1 .. Len(keys) |-> i - 1])

SymbolKeys(s) == [i \in 1 .. Len(s) |-> <<Ord(s[i])>>]

(***************************************************************************)
(* conversion_functions.py: suffix array by rank doubling.                 *)
(***************************************************************************)
Zeros(n) == [i \in 1 .. n |-> 0]

\* a[i] = v on a 0-based array
Store(a, i, v) == [a EXCEPT ![i + 1] = v]

\* SuffixRanks with the offset dropped: (ranks[i], ranks[i])
SuffixRanksNoOffset(suffix_array, k, ranks) ==
    [j \in 1 .. Len(suffix_array) |->
        <<At(ranks, suffix_array[j]), At(ranks, suffix_array[j])>>]

\* the tuples (ranks[i], ranks[(i + k) % len(ranks)]) for i in suffix_array
SuffixRanks(suffix_array, k, ranks) ==
    [j \in 1 .. Len(suffix_array) |->
        <<At(ranks, suffix_array[j]),
          At(ranks, (suffix_array[j] + k) % Len(ranks))>>]

\* the loop of calculate_ranks, from index i on
RECURSIVE RankLoop(_, _, _, _, _)
RankLoop(suffix_array, suffix_ranks, sorted_indices, next_ranks, i) ==
    IF i >= Len(next_ranks) THEN next_ranks
    ELSE LET cur  == At(suffix_array, At(sorted_indices, i))
             prev == At(suffix_array, At(sorted_indices, i - 1))
             step == IF At(suffix_ranks, At(sorted_indices, i))
                        # At(suffix_ranks, At(sorted_indices, i - 1))
                     THEN 1 ELSE 0
         IN  RankLoop(suffix_array, suffix_ranks, sorted_indices,
                      Store(next_ranks, cur, At(next_ranks, prev) + step), i + 1)

calculate_ranks(suffix_array, k, ranks) ==
    LET suffix_ranks   == SuffixRanks(suffix_array, k, ranks)
        sorted_indices == ArgSort(suffix_ranks)
    IN  RankLoop(suffix_array, suffix_ranks, sorted_indices, Zeros(Len(ranks)), 1)

\* the initial ranks: suffixes that start with the same symbol share a rank
RECURSIVE InitialRankLoop(_, _, _, _)
InitialRankLoop(seq, suffix_array, ranks, i) ==
    IF i >= Len(seq) THEN ranks
    ELSE LET cur  == At(suffix_array, i)
             prev == At(suffix_array, i - 1)
             step == IF At(seq, cur) # At(seq, prev) THEN 1 ELSE 0
         IN  InitialRankLoop(seq, suffix_array,
                             Store(ranks, cur, At(ranks, prev) + step), i + 1)

\* build_suffix_array up to the first test of the while loop
InitialSort(seq) ==
    LET suffix_array == ArgSort(SymbolKeys(seq))
    IN  [suffix_array |-> suffix_array,
         ranks        |-> InitialRankLoop(seq, suffix_array, Zeros(Len(seq)), 1),
         k            |-> 1,
         broke        |-> FALSE]

\* EarlyExit one rank too soon: ranks[suffix_array[-1]] >= len(seq) - 2
EarlyExitOffByOne(seq, suffix_array, ranks) ==
    At(ranks, Last(suffix_array)) >= Len(seq) - 2

\* the early exit taken at the end of a doubling round
EarlyExit(seq, suffix_array, ranks) == At(ranks, Last(suffix_array)) = Len(seq) - 1

\* Reorder with the rank vector used as the index array: suffix_array[ranks]
ReorderByRanks(suffix_array, k, ranks) ==
    [j \in 1 .. Len(suffix_array) |-> At(suffix_array, ranks[j])]

\* the reordered suffix array of one doubling round
Reorder(suffix_array, k, ranks) ==
    LET sorted_indices == ArgSort(SuffixRanks(suffix_array, k, ranks))
    IN  [j \in 1 .. Len(suffix_array) |-> At(suffix_array, sorted_indices[j])]

\* one pass through the body of the while loop
DoublingRound(seq, st) ==
    LET suffix_array == Reorder(st.suffix_array, st.k, st.ranks)
        ranks        == calculate_ranks(suffix_array, st.k, st.ranks)
    IN  [suffix_array |-> suffix_array,
         ranks        |-> ranks,
         k            |-> st.k * 2,
         broke        |-> EarlyExit(seq, suffix_array, ranks)]

\* LoopDone with the loop condition k < 2 * len(seq)
LoopDoneLate(seq, st) == st.broke \/ ~(st.k < 2 * Len(seq))

\* the while loop is left: its condition fails or the break was taken
LoopDone(seq, st) == st.broke \/ ~(st.k < Len(seq))

RECURSIVE DoublingLoop(_, _)
DoublingLoop(seq, st) ==
    IF LoopDone(seq, st) THEN st ELSE DoublingLoop(seq, DoublingRound(seq, st))

build_suffix_array(seq) == DoublingLoop(seq, InitialSort(seq)).suffix_array

(***************************************************************************)
(* conversion_functions.py: the transform and its inverse.  A call ends    *)
(* with a value or with a raised exception.                                *)
(***************************************************************************)
NoResult == [kind |-> "none", value |-> <<>>, error |-> ""]

Returned(v) == [kind |-> "return", value |-> v, error |-> ""]

Raised(e) == [kind |-> "raise", value |-> <<>>, error |-> e]

\* JoinPreceding without the step back: seq_array[i % len(seq)]
JoinAtOffset(seq, suffix_array) ==
    [j \in 1 .. Len(suffix_array) |-> At(seq, suffix_array[j] % Len(seq))]

\* seq_array[(i - 1) % len(seq)] for i in suffix_array
JoinPreceding(seq, suffix_array) ==
    [j \in 1 .. Len(suffix_array) |-> At(seq, (suffix_array[j] - 1) % Len(seq))]

burrows_wheeler_conversion(seq) ==
    LET s == seq \o <<Sentinel>>
    IN  Returned(JoinPreceding(s, build_suffix_array(s)))

\* np.sort(bwt_array)
SortSymbols(bwt) ==
    LET p == ArgSort(SymbolKeys(bwt))
    IN  [j \in 1 .. Len(bwt) |-> At(bwt, p[j])]

\* a Python dict as a function; defaultdict(int) reads 0 for a missing key
EmptyDict == <<>>

Get(d, key) == IF key \in DOMAIN d THEN d[key] ELSE 0

Put(d, key, v) == [x \in DOMAIN d \cup {key} |-> IF x = key THEN v ELSE d[x]]

\* FirstLoop without the membership test: first[char] = i at every index
RECURSIVE FirstLoopOverwrite(_, _, _)
FirstLoopOverwrite(first_col, first, i) ==
    IF i >= Len(first_col) THEN first
    ELSE FirstLoopOverwrite(first_col, Put(first, At(first_col, i), i), i + 1)

\* first: the index of the first occurrence of each symbol of first_col
RECURSIVE FirstLoop(_, _, _)
FirstLoop(first_col, first, i) ==
    IF i >= Len(first_col) THEN first
    ELSE LET char == At(first_col, i)
         IN  FirstLoop(first_col,
                       IF char \notin DOMAIN first THEN Put(first, char, i) ELSE first,
                       i + 1)

\* the loop that fills last_to_first, from index i on
RECURSIVE MapLoop(_, _, _, _, _)
MapLoop(bwt, first, char_counts, last_to_first, i) ==
    IF i >= Len(bwt) THEN last_to_first
    ELSE LET char            == At(bwt, i)
             first_col_index == first[char] + Get(char_counts, char)
         IN  MapLoop(bwt, first,
                     Put(char_counts, char, Get(char_counts, char) + 1),
                     Store(last_to_first, i, first_col_index), i + 1)

map_last_to_first(bwt) ==
    LET first_col == SortSymbols(bwt)
        first     == FirstLoop(first_col, EmptyDict, 0)
    IN  MapLoop(bwt, first, EmptyDict, Zeros(Len(bwt)), 0)

\* np.where(bwt_array == '$')[0]: the indices of the sentinel, ascending
SentinelIndices(bwt) == {i \in Range0(Len(bwt)) : At(bwt, i) = Sentinel}

FirstSentinel(bwt) ==
    CHOOSE i \in SentinelIndices(bwt) : \A j \in SentinelIndices(bwt) : i <= j

\* the for loop of revert_burrows_wheeler: n more iterations
RECURSIVE WalkBack(_, _, _, _, _)
WalkBack(bwt, last_to_first, idx, original_seq, n) ==
    IF n = 0 THEN original_seq
    ELSE WalkBack(bwt, last_to_first, At(last_to_first, idx),
                  <<At(bwt, idx)>> \o original_seq, n - 1)

\* DropLast slicing at the wrong end: ''.join(original_seq)[1:]
DropFirst(s) == IF s = <<>> THEN <<>> ELSE Tail(s)

\* ''.join(original_seq)[:-1]
DropLast(s) == IF s = <<>> THEN <<>> ELSE SubSeq(s, 1, Len(s) - 1)

revert_burrows_wheeler(bwt) ==
    LET last_to_first == map_last_to_first(bwt)
    IN  IF SentinelIndices(bwt) = {} THEN Raised("IndexError")
        ELSE Returned(DropLast(WalkBack(bwt, last_to_first, FirstSentinel(bwt),
                                        <<>>, Len(bwt))))

(***************************************************************************)
(* One invocation of a core function, step by step.  A frame holds the     *)
(* locals of the call: its argument, the arrays it builds and its result.  *)
(***************************************************************************)
IdleFrame ==
    [fn            |-> "none",
     pc            |-> "idle",
     arg           |-> <<>>,
     chained       |-> FALSE,
     origin        |-> <<>>,
     seq           |-> <<>>,
     suffix_array  |-> <<>>,
     ranks         |-> <<>>,
     k             |-> 0,
     broke         |-> FALSE,
     last_to_first |-> <<>>,
     idx           |-> 0,
     original_seq  |-> <<>>,
     left          |-> 0,
     result        |-> NoResult]

\* entry of build_suffix_array(seq)
EnterBuildSuffixArray(seq) ==
    [IdleFrame EXCEPT !.fn = "build_suffix_array", !.pc = "sort",
                      !.arg = seq, !.seq = seq]

\* entry of burrows_wheeler_conversion(seq), up to seq += "$"
EnterConversion(seq) ==
    [IdleFrame EXCEPT !.fn = "burrows_wheeler_conversion", !.pc = "sort",
                      !.arg = seq, !.seq = seq \o <<Sentinel>>]

\* entry of revert_burrows_wheeler(bwt)
EnterRevert(bwt) ==
    [IdleFrame EXCEPT !.fn = "revert_burrows_wheeler", !.pc = "map", !.arg = bwt]

\* the loop state of build_suffix_array held in a frame
LoopState(f) ==
    [suffix_array |-> f.suffix_array, ranks |-> f.ranks, k |-> f.k, broke |-> f.broke]

WithLoopState(f, st) ==
    [f EXCEPT !.suffix_array = st.suffix_array, !.ranks = st.ranks,
              !.k = st.k, !.broke = st.broke]

\* lines 41-61: the initial sort and the initial ranks
StepSort(f) == [WithLoopState(f, InitialSort(f.seq)) EXCEPT !.pc = "loop"]

\* lines 62-81: one doubling round
StepRound(f) == WithLoopState(f, DoublingRound(f.seq, LoopState(f)))

\* line 83: build_suffix_array returns to its caller
StepLoopExit(f) ==
    IF f.fn = "build_suffix_array"
    THEN [f EXCEPT !.pc = "done", !.result = Returned(f.suffix_array)]
    ELSE [f EXCEPT !.pc = "join"]

\* lines 99-106: the transform string is joined and returned
StepJoin(f) ==
    [f EXCEPT !.pc = "done", !.result = Returned(JoinPreceding(f.seq, f.suffix_array))]

\* line 157
StepMap(f) == [f EXCEPT !.pc = "find", !.last_to_first = map_last_to_first(f.arg)]

\* line 163: [0][0] of an empty index array raises IndexError
StepFind(f) ==
    IF SentinelIndices(f.arg) = {}
    THEN [f EXCEPT !.pc = "done", !.result = Raised("IndexError")]
    ELSE [f EXCEPT !.pc = "walk", !.idx = FirstSentinel(f.arg),
                   !.original_seq = <<>>, !.left = Len(f.arg)]

\* lines 171-174: one iteration of the for loop
StepWalk(f) ==
    [f EXCEPT !.original_seq = <<At(f.arg, f.idx)>> \o f.original_seq,
              !.idx = At(f.last_to_first, f.idx),
              !.left = f.left - 1]

\* line 177
StepReturn(f) == [f EXCEPT !.pc = "done", !.result = Returned(DropLast(f.original_seq))]

Running(f) == f.pc \notin {"idle", "done"}

\* the next step of a running invocation
Advance(f) ==
    CASE f.pc = "sort" -> StepSort(f)
      [] f.pc = "loop" /\ ~LoopDone(f.seq, LoopState(f)) -> StepRound(f)
      [] f.pc = "loop" /\ LoopDone(f.seq, LoopState(f)) -> StepLoopExit(f)
      [] f.pc = "join" -> StepJoin(f)
      [] f.pc = "map" -> StepMap(f)
      [] f.pc = "find" -> StepFind(f)
      [] f.pc = "walk" /\ f.left > 0 -> StepWalk(f)
      [] f.pc = "walk" /\ f.left = 0 -> StepReturn(f)

(***************************************************************************)
(* server.py: the accept loop, the worker pool and handle_request.         *)
(***************************************************************************)
Conns == 1 .. NumConns

\* conn.recv(1024)
RecvSize == 1024

Min(a, b) == IF a <= b THEN a ELSE b

\* data.find(sub): the index of the first occurrence of sub in s, or -1
IndexOf(s, sub) ==
    LET hits == {i \in 0 .. (Len(s) - Len(sub)) : SubSeq(s, i + 1, i + Len(sub)) = sub}
    IN  IF hits = {} THEN -1
        ELSE CHOOSE i \in hits : \A j \in hits : i <= j

\* str.split(sep)
RECURSIVE Split(_, _)
Split(s, sep) ==
    LET i == IndexOf(s, sep)
    IN  IF i = -1 THEN <<s>>
        ELSE <<SubSeq(s, 1, i)>> \o Split(SubSeq(s, i + Len(sep) + 1, Len(s)), sep)

end == Encode(<<"\n">>)

Separator == <<":", " ">>

BWT == <<"B", "W", "T">>

REVERT == <<"R", "E", "V", "E", "R", "T">>

Welcome ==
    Encode(<<"W", "e", "l", "c", "o", "m", "e", ".", " ", "W", "a", "i", "t", "i", "n",
             "g", " ", "f", "o", "r", " ", "d", "a", "t", "a", ".", ".", ".">>)

\* the line a peer sends: f"{operation}: {seq}\n"
RequestLine(operation, seq) == operation \o Separator \o seq \o <<"\n">>

\* the request lines the peers of the model send: well-formed requests, requests
\* that break the sentinel rule, an unknown label, and lines that do not split in two
RequestLines ==
    {RequestLine(BWT, <<"C", "A">>),
     RequestLine(BWT, <<"$">>),
     RequestLine(REVERT, <<"A", "$">>),
     RequestLine(REVERT, <<"A">>),
     RequestLine(<<"X">>, <<"A", "$">>),
     BWT \o <<"\n">>}

\* Slot when the core kept its arrays in one place shared by all invocations
SharedSlot(c) == 1

\* the invocation that owns the locals of connection c's core call: every
\* handle_request runs in a pool process of its own, on its own local variables
Slot(c) == c

NoConn ==
    [phase          |-> "none",
     line           |-> <<>>,
     inbound        |-> <<>>,
     raw_seq_info   |-> <<>>,
     operation      |-> <<>>,
     seq_to_convert |-> <<>>,
     outbound       |-> <<>>,
     error          |-> ""]

\* validation_client is not called
NoClient == client = [pc |-> "idle"]

\* no connection is made
NoLink == link = [cpc |-> "idle"]

NoServer ==
    /\ n_processes = 1
    /\ tasks = <<>>
    /\ conns = [c \in Conns |-> NoConn]
    /\ frames = [c \in Conns |-> IdleFrame]

\* the connections a pool process is working on
Busy == {c \in Conns : conns[c].phase \in {"recv", "parse", "compute"}}

\* lines 129-134: accept, welcome, hand the connection to the pool; the peer's
\* request line is on its way to the server
Accept(c) ==
    /\ conns[c].phase = "none"
    /\ \E line \in RequestLines :
           conns' = [conns EXCEPT ![c] = [NoConn EXCEPT !.phase = "queued",
                                                        !.line = line,
                                                        !.inbound = Encode(line),
                                                        !.outbound = Welcome]]
    /\ tasks' = Append(tasks, c)
    /\ UNCHANGED <<frame, n_processes, frames, client, link>>

\* a free pool process takes the oldest task and enters handle_request (lines 17-19)
Start(c) ==
    /\ tasks # <<>>
    /\ Head(tasks) = c
    /\ Cardinality(Busy) < n_processes
    /\ tasks' = Tail(tasks)
    /\ conns' = [conns EXCEPT ![c].phase = "recv", ![c].raw_seq_info = <<>>]
    /\ UNCHANGED <<frame, n_processes, frames, client, link>>

\* lines 23-29: one pass of the receive loop; recv returns between 1 and 1024 of
\* the bytes in flight
Recv(c) ==
    /\ conns[c].phase = "recv"
    /\ conns[c].inbound # <<>>
    /\ \E n \in 1 .. Min(Len(conns[c].inbound), RecvSize) :
           LET data == SubSeq(conns[c].inbound, 1, n)
               rest == SubSeq(conns[c].inbound, n + 1, Len(conns[c].inbound))
           IN  conns' =
                   IF IndexOf(data, end) # -1
                   THEN [conns EXCEPT
                            ![c].raw_seq_info =
                                conns[c].raw_seq_info \o SubSeq(data, 1, IndexOf(data, end)),
                            ![c].inbound = rest,
                            ![c].phase = "parse"]
                   ELSE [conns EXCEPT
                            ![c].raw_seq_info = conns[c].raw_seq_info \o data,
                            ![c].inbound = rest]
    /\ UNCHANGED <<frame, n_processes, tasks, frames, client, link>>

\* lines 36-41: any label other than "BWT" goes to revert_burrows_wheeler
Dispatch(operation, seq_to_convert) ==
    IF operation = BWT THEN EnterConversion(seq_to_convert)
    ELSE EnterRevert(seq_to_convert)

\* lines 32-41: decode, split and enter the requested operation; a line that does
\* not split in two raises ValueError, which lines 53-58 log before closing
Parse(c) ==
    /\ conns[c].phase = "parse"
    /\ LET seq_info == Decode(conns[c].raw_seq_info)
           parts    == Split(seq_info, Separator)
       IN  IF Len(parts) = 2
           THEN /\ conns' = [conns EXCEPT ![c].operation = parts[1],
                                          ![c].seq_to_convert = parts[2],
                                          ![c].phase = "compute"]
                /\ frames' = [frames EXCEPT ![Slot(c)] = Dispatch(parts[1], parts[2])]
           ELSE /\ conns' = [conns EXCEPT ![c].error = "ValueError",
                                          ![c].phase = "closed"]
                /\ UNCHANGED frames
    /\ UNCHANGED <<frame, n_processes, tasks, client, link>>

\* one step of the core call made by handle_request
Compute(c) ==
    /\ conns[c].phase = "compute"
    /\ Running(frames[Slot(c)])
    /\ frames' = [frames EXCEPT ![Slot(c)] = Advance(frames[Slot(c)])]
    /\ UNCHANGED <<frame, n_processes, tasks, conns, client, link>>

\* lines 44-58: the result line is sent, or the exception is logged; then the
\* connection is closed
Finish(c) ==
    /\ conns[c].phase = "compute"
    /\ frames[Slot(c)].pc = "done"
    /\ LET result == frames[Slot(c)].result
       IN  conns' =
               IF result.kind = "return"
               THEN [conns EXCEPT
                        ![c].outbound = conns[c].outbound \o Encode(result.value \o <<"\n">>),
                        ![c].phase = "closed"]
               ELSE [conns EXCEPT ![c].error = result.error, ![c].phase = "closed"]
    /\ UNCHANGED <<frame, n_processes, tasks, frames, client, link>>

InitServer ==
    /\ frame = IdleFrame
    /\ NoClient
    /\ NoLink
    /\ n_processes \in 1 .. MaxProcesses
    /\ tasks = <<>>
    /\ conns = [c \in Conns |-> NoConn]
    /\ frames = [c \in Conns |-> IdleFrame]

NextServer ==
    \E c \in Conns :
        \/ Accept(c)
        \/ Start(c)
        \/ Recv(c)
        \/ Parse(c)
        \/ Compute(c)
        \/ Finish(c)

SpecServer == InitServer /\ [][NextServer]_vars


(***************************************************************************)
(* client.py: validation_client.                                           *)
(***************************************************************************)
MinPort == 1

MaxPort == 65535

\* the hosts of the unit tests
LocalHost == "localhost"

UnknownHost == "non_existent_host"

\* socket.gethostbyname(host): the exception it raises, "none" when it resolves
Resolve(host) == IF host = LocalHost THEN "none" ELSE "gaierror"

EndsWith(s, suffix) ==
    /\ Len(s) >= Len(suffix)
    /\ SubSeq(s, Len(s) - Len(suffix) + 1, Len(s)) = suffix

StartsWith(s, prefix) ==
    /\ Len(s) >= Len(prefix)
    /\ SubSeq(s, 1, Len(prefix)) = prefix

IsSpace(c) == c \in {" ", "\n"}

RECURSIVE LStrip(_)
LStrip(s) == IF s # <<>> /\ IsSpace(Head(s)) THEN LStrip(Tail(s)) ELSE s

RECURSIVE RStrip(_)
RStrip(s) ==
    IF s # <<>> /\ IsSpace(Last(s)) THEN RStrip(SubSeq(s, 1, Len(s) - 1)) ELSE s

\* str.strip()
Strip(s) == RStrip(LStrip(s))

UpperChar(c) ==
    CASE c = "a" -> "A"
      [] c = "c" -> "C"
      [] c = "f" -> "F"
      [] c = "h" -> "H"
      [] OTHER -> c

\* str.upper()
Upper(s) == [i \in 1 .. Len(s) |-> UpperChar(s[i])]

\* str.replace(old, "") for a one-character old
RECURSIVE Remove(_, _)
Remove(s, old) ==
    IF s = <<>> THEN <<>>
    ELSE IF Head(s) = old THEN Remove(Tail(s), old)
    ELSE <<Head(s)>> \o Remove(Tail(s), old)

\* f.readline(): the first line, its newline included
ReadLine(content) ==
    LET i == IndexOf(content, <<"\n">>)
    IN  IF i = -1 THEN content ELSE SubSeq(content, 1, i + 1)

\* f.read() after the readline
ReadRest(content) == SubSeq(content, Len(ReadLine(content)) + 1, Len(content))

\* line 48: "ACGTRYSWKMBDHVN$"
Bases == IUPAC \cup {Sentinel}

Txt == <<".", "t", "x", "t">>

Fasta == <<".", "f", "a", "s", "t", "a">>

\* lines 19-21: the exception the first try block raises, "none" when it passes
NetworkCheck(host, port) ==
    IF ~(MinPort <= port /\ port <= MaxPort) THEN "ValueError"
    ELSE Resolve(host)

\* lines 22-27: the handlers of the first try block
NetworkExit(exception) ==
    CASE exception = "ValueError" -> 3
      [] exception = "gaierror" -> 4

\* line 36
HeaderOf(content) == Strip(ReadLine(content))

\* lines 37-38
SeqOf(content) == Remove(Upper(Strip(ReadRest(content))), "\n")

\* lines 40-49: the checks made on the text of the file
ContentCheck(header, seq, operation) ==
    IF ~StartsWith(header, <<">">>) THEN "ValueError"
    ELSE IF seq = <<>> THEN "ValueError"
    ELSE IF operation = BWT /\ Count(seq, Sentinel) > 0 THEN "ValueError"
    ELSE IF operation = REVERT /\ Count(seq, Sentinel) # 1 THEN "ValueError"
    ELSE IF ~(\A i \in 1 .. Len(seq) : seq[i] \in Bases) THEN "ValueError"
    ELSE "none"

\* FileCheck that opens the file before it looks at the extension
FileCheckOpenFirst(file, exists, content, operation) ==
    IF ~exists THEN "FileNotFoundError"
    ELSE IF ~(EndsWith(file, Txt) \/ EndsWith(file, Fasta)) THEN "ValueError"
    ELSE ContentCheck(HeaderOf(content), SeqOf(content), operation)

\* lines 31-49: the exception the second try block raises, "none" when it passes
FileCheck(file, exists, content, operation) ==
    IF ~(EndsWith(file, Txt) \/ EndsWith(file, Fasta)) THEN "ValueError"
    ELSE IF ~exists THEN "FileNotFoundError"
    ELSE ContentCheck(HeaderOf(content), SeqOf(content), operation)

\* lines 51-56: the handlers of the second try block
FileExit(exception) ==
    CASE exception = "FileNotFoundError" -> 2
      [] exception = "ValueError" -> 3

Exited(code) == [kind |-> "exit", code |-> code, value |-> <<>>]

Passed(host, port, header, seq) ==
    [kind |-> "return", code |-> 0, value |-> <<host, port, header, seq>>]

validation_client(host, port, file, exists, content, operation) ==
    IF NetworkCheck(host, port) # "none"
    THEN Exited(NetworkExit(NetworkCheck(host, port)))
    ELSE IF FileCheck(file, exists, content, operation) # "none"
    THEN Exited(FileExit(FileCheck(file, exists, content, operation)))
    ELSE Passed(host, port, HeaderOf(content), SeqOf(content))

\* the arguments and the files of the model
Hosts == {LocalHost, UnknownHost}

Ports == {MinPort - 1, MinPort, MaxPort, MaxPort + 1}

FileNames ==
    {<<"f">> \o Txt, <<"f">> \o Fasta, <<"f", ".", "d", "o", "c", "x">>, <<"t", "x", "t">>}

HeaderLines ==
    {<<">", "h", "\n">>, <<"h", "\n">>, <<" ", ">", "h", "\n">>, <<"\n">>}

BodyChars == {"A", "c", "$", "F", " ", "\n"}

FileContents ==
    {h \o b : h \in HeaderLines, b \in SeqsUpTo(BodyChars, MaxBodyLen)}
        \cup {<<>>, <<">", "h">>}

Operations == {BWT, REVERT}

InitClient ==
    /\ frame = IdleFrame
    /\ NoServer
    /\ NoLink
    /\ client = [pc |-> "start"]

\* one call of validation_client on a file system that holds the file or not
ValidationClient ==
    /\ client.pc = "start"
    /\ \E host \in Hosts, port \in Ports, file \in FileNames, operation \in Operations,
          exists \in BOOLEAN :
           \E content \in IF exists THEN FileContents ELSE {<<>>} :
               client' = [pc        |-> "done",
                          host      |-> host,
                          port      |-> port,
                          file      |-> file,
                          exists    |-> exists,
                          content   |-> content,
                          operation |-> operation,
                          outcome   |-> validation_client(host, port, file, exists,
                                                          content, operation)]
    /\ UNCHANGED <<frame, serverVars, sessionVars>>

NextClient == ValidationClient

SpecClient == InitClient /\ [][NextClient]_vars


(***************************************************************************)
(* Specification of the core: one call of a core function on a bounded      *)
(* input, and the decode of an encode's result (the pair of unit tests).   *)
(***************************************************************************)
\* tests/test_conversion_functions.py, lines 9 and 12
ScenarioSeq ==
    <<"A", "C", "G", "T", "A", "C", "G", "T", "A", "C", "G", "T", "A", "C", "G", "T",
      "A", "C", "G", "T">>

ScenarioBwt ==
    <<"T", "T", "T", "T", "T", "$", "A", "A", "A", "A", "A", "C", "C", "C", "C", "C",
      "G", "G", "G", "G", "G">>

CoreInputs == SeqsUpTo(Symbols, MaxLen) \cup {ScenarioSeq, ScenarioBwt}

Init == frame = IdleFrame /\ NoServer /\ NoClient /\ NoLink

CallBuildSuffixArray ==
    /\ frame.pc = "idle"
    /\ \E seq \in CoreInputs : frame' = EnterBuildSuffixArray(seq)
    /\ UNCHANGED <<serverVars, clientVars, sessionVars>>

CallConversion ==
    /\ frame.pc = "idle"
    /\ \E seq \in CoreInputs : frame' = EnterConversion(seq)
    /\ UNCHANGED <<serverVars, clientVars, sessionVars>>

CallRevert ==
    /\ frame.pc = "idle"
    /\ \E bwt \in CoreInputs : frame' = EnterRevert(bwt)
    /\ UNCHANGED <<serverVars, clientVars, sessionVars>>

\* revert_burrows_wheeler(burrows_wheeler_conversion(S))
CallRevertOfResult ==
    /\ frame.pc = "done"
    /\ frame.fn = "burrows_wheeler_conversion"
    /\ frame.result.kind = "return"
    /\ frame' = [EnterRevert(frame.result.value) EXCEPT !.chained = TRUE,
                                                        !.origin = frame.arg]
    /\ UNCHANGED <<serverVars, clientVars, sessionVars>>

Sort ==
    /\ frame.pc = "sort"
    /\ frame' = StepSort(frame)
    /\ UNCHANGED <<serverVars, clientVars, sessionVars>>

Round ==
    /\ frame.pc = "loop"
    /\ ~LoopDone(frame.seq, LoopState(frame))
    /\ frame' = StepRound(frame)
    /\ UNCHANGED <<serverVars, clientVars, sessionVars>>

LoopExit ==
    /\ frame.pc = "loop"
    /\ LoopDone(frame.seq, LoopState(frame))
    /\ frame' = StepLoopExit(frame)
    /\ UNCHANGED <<serverVars, clientVars, sessionVars>>

Join ==
    /\ frame.pc = "join"
    /\ frame' = StepJoin(frame)
    /\ UNCHANGED <<serverVars, clientVars, sessionVars>>

Map ==
    /\ frame.pc = "map"
    /\ frame' = StepMap(frame)
    /\ UNCHANGED <<serverVars, clientVars, sessionVars>>

Find ==
    /\ frame.pc = "find"
    /\ frame' = StepFind(frame)
    /\ UNCHANGED <<serverVars, clientVars, sessionVars>>

Walk ==
    /\ frame.pc = "walk"
    /\ frame.left > 0
    /\ frame' = StepWalk(frame)
    /\ UNCHANGED <<serverVars, clientVars, sessionVars>>

Return ==
    /\ frame.pc = "walk"
    /\ frame.left = 0
    /\ frame' = StepReturn(frame)
    /\ UNCHANGED <<serverVars, clientVars, sessionVars>>

Next ==
    \/ CallBuildSuffixArray
    \/ CallConversion
    \/ CallRevert
    \/ CallRevertOfResult
    \/ Sort
    \/ Round
    \/ LoopExit
    \/ Join
    \/ Map
    \/ Find
    \/ Walk
    \/ Return

Spec == Init /\ [][Next]_vars

(***************************************************************************)
(* One connection from end to end: starting and handle_request of          *)
(* server.py on one side; on the other side main of client.py, or a peer   *)
(* that sends bytes of its own and may close.  Both directions are byte    *)
(* streams, and a recv returns any non-empty prefix of the bytes in flight.*)
(* Of the number of passes a receive loop has made the state keeps the     *)
(* parity.                                                                 *)
(***************************************************************************)
\* data[:data.find(end)] with the newline kept: data[:data.find(end) + 1]
ThroughEnd(data) == SubSeq(data, 1, IndexOf(data, end) + 1)

\* data[:data.find(end)]
UntilEnd(data) == SubSeq(data, 1, IndexOf(data, end))

\* the body of a receive loop after its recv: server.py lines 25-29 and, word for
\* word, client.py lines 111-115
ReceivePass(buffer, data) ==
    IF IndexOf(data, end) # -1
    THEN [buffer |-> buffer \o UntilEnd(data), found |-> TRUE]
    ELSE [buffer |-> buffer \o data, found |-> FALSE]

\* the lengths recv(1024) can return: 0 at the end of a closed stream, otherwise
\* 1 to 1024 of the bytes in flight (all of them when link.whole is set); recv
\* blocks on an empty stream that is still open
RecvLengths(stream, closed) ==
    IF stream = <<>> THEN (IF closed THEN {0} ELSE {})
    ELSE IF link.whole THEN {Min(Len(stream), RecvSize)}
    ELSE 1 .. Min(Len(stream), RecvSize)

\* a core call run to its end
RECURSIVE Complete(_)
Complete(f) == IF Running(f) THEN Complete(Advance(f)) ELSE f

\* the sequences of the session
SessionSeqs == {<<"C", "A">>, <<"A", "$">>}

\* what main sends: an operation of argparse's choices and a sequence that
\* validation_client has returned
MainRequests ==
    {r \in [operation : Operations, seq : SessionSeqs] :
        ContentCheck(<<">", "h">>, r.seq, r.operation) = "none"}

\* what another peer sends: a request line, then whatever it likes
PeerRequests ==
    {[operation |-> BWT, seq |-> <<"C", "A">>, rest |-> <<"T">>],
     [operation |-> REVERT, seq |-> <<"A", "$">>, rest |-> <<"C", "\n">>],
     [operation |-> REVERT, seq |-> <<"A">>, rest |-> <<>>]}

PeerLine(r) == RequestLine(r.operation, r.seq) \o r.rest

\* or no request line: nothing at all, a line cut before its newline, a line
\* without the separator
PeerFragments == {<<>>, <<"B", "W", "T", ":", " ", "A">>, <<"B", "W", "T", "\n">>}

StartLink ==
    [whole          |-> FALSE,
     kind           |-> "none",
     cpc            |-> "start",
     operation      |-> <<>>,
     seq            |-> <<>>,
     framed         |-> FALSE,
     sent           |-> <<>>,
     welcome        |-> <<>>,
     cpasses        |-> 0,
     raw_seq        |-> <<>>,
     out            |-> <<>>,
     code           |-> 0,
     c2s            |-> <<>>,
     c_end          |-> "open",
     s2c            |-> <<>>,
     s_sent         |-> <<>>,
     spc            |-> "listen",
     parent         |-> FALSE,
     spasses        |-> 0,
     raw_seq_info   |-> <<>>,
     s_operation    |-> <<>>,
     seq_to_convert |-> <<>>,
     result         |-> NoResult,
     error          |-> ""]

\* server.py lines 129-134: the connection is accepted, the welcome message is
\* sent and the connection is handed to the pool; the parent keeps its socket
Accepted ==
    [link EXCEPT !.spc = "queued", !.parent = TRUE,
                      !.s2c = Welcome, !.s_sent = Welcome]

\* client.py line 93 (or a peer's connect) and the server's accept
Connect ==
    /\ link.cpc = "start"
    /\ \/ \E r \in MainRequests :
              link' = [Accepted EXCEPT !.kind = "main", !.cpc = "welcome",
                                       !.operation = r.operation, !.seq = r.seq,
                                       !.framed = TRUE]
       \/ \E r \in PeerRequests :
              link' = [Accepted EXCEPT !.kind = "peer", !.cpc = "peer",
                                       !.operation = r.operation, !.seq = r.seq,
                                       !.framed = TRUE,
                                       !.sent = PeerLine(r),
                                       !.c2s = Encode(PeerLine(r))]
       \/ \E b \in PeerFragments :
              link' = [Accepted EXCEPT !.kind = "peer", !.cpc = "peer",
                                       !.sent = b, !.c2s = Encode(b)]
    /\ UNCHANGED <<frame, serverVars, clientVars>>

\* the peer closes its socket
PeerClose ==
    /\ link.cpc = "peer"
    /\ link' = [link EXCEPT !.cpc = "gone", !.c_end = "fin"]
    /\ UNCHANGED <<frame, serverVars, clientVars>>

\* server.py lines 17-19: a pool process enters handle_request
StartRequest ==
    /\ link.spc = "queued"
    /\ link' = [link EXCEPT !.spc = "recv", !.raw_seq_info = <<>>]
    /\ UNCHANGED <<frame, serverVars, clientVars>>

\* server.py lines 23-29, one pass of the loop: recv returns between 1 and 1024 of
\* the bytes in flight, or b"" once the client has closed and every byte is read
ServerRecv ==
    /\ link.spc = "recv"
    /\ \E n \in RecvLengths(link.c2s, link.c_end = "fin") :
           LET data == SubSeq(link.c2s, 1, n)
               pass == ReceivePass(link.raw_seq_info, data)
           IN  link' = [link EXCEPT !.c2s = SubSeq(link.c2s, n + 1, Len(link.c2s)),
                                    !.raw_seq_info = pass.buffer,
                                    !.spasses = 1 - link.spasses,
                                    !.spc = IF pass.found THEN "reply" ELSE "recv"]
    /\ UNCHANGED <<frame, serverVars, clientVars>>

\* server.py line 24 and lines 47-58: no byte is in flight and the client has not
\* closed; recv raises (socket.timeout or another socket.error), the handler logs
\* it and the connection is closed
ServerRecvError ==
    /\ link.spc = "recv"
    /\ link.c2s = <<>>
    /\ link.c_end = "open"
    /\ link' = [link EXCEPT !.error = "socket.error", !.spc = "closed"]
    /\ UNCHANGED <<frame, serverVars, clientVars>>

\* every stream of bytes a client side of the session sends
SessionStreams ==
    {RequestLine(r.operation, r.seq) : r \in MainRequests}
        \cup {PeerLine(r) : r \in PeerRequests} \cup PeerFragments

\* server.py lines 33-41 on a decoded line: the split and the operation; a line
\* that does not split in two raises ValueError
Handled(seq_info) ==
    LET parts == Split(seq_info, Separator)
    IN  IF Len(parts) # 2
        THEN [operation |-> <<>>, seq_to_convert |-> <<>>, result |-> Raised("ValueError")]
        ELSE [operation      |-> parts[1],
              seq_to_convert |-> parts[2],
              result         |-> Complete(Dispatch(parts[1], parts[2])).result]

\* Handled on the first lines of the session's streams, computed once
HandledTable ==
    [seq_info \in {SubSeq(x, 1, IndexOf(x, <<"\n">>)) :
                      x \in {y \in SessionStreams : IndexOf(y, <<"\n">>) # -1}}
        |-> Handled(seq_info)]

\* server.py lines 32-58: decode, split, run the operation, send the result line
\* (or log the exception), close
Replied(l) ==
    LET seq_info == Decode(l.raw_seq_info)
        h        == IF seq_info \in DOMAIN HandledTable THEN HandledTable[seq_info]
                    ELSE Handled(seq_info)
        line     == IF h.result.kind = "return"
                    THEN Encode(h.result.value \o <<"\n">>) ELSE <<>>
    IN  [l EXCEPT !.s_operation = h.operation,
                  !.seq_to_convert = h.seq_to_convert,
                  !.result = h.result,
                  !.error = h.result.error,
                  !.s2c = l.s2c \o line,
                  !.s_sent = l.s_sent \o line,
                  !.spc = "closed"]

Reply ==
    /\ link.spc = "reply"
    /\ link' = Replied(link)
    /\ UNCHANGED <<frame, serverVars, clientVars>>

\* server.py lines 128-129: the accept loop takes the next connection and with it
\* drops the socket it kept of this one (the pool has passed it on by then)
ParentRelease ==
    /\ link.parent
    /\ link.spc \notin {"listen", "queued"}
    /\ link' = [link EXCEPT !.parent = FALSE]
    /\ UNCHANGED <<frame, serverVars, clientVars>>

\* server.py lines 127-141: the accept loop raises, the with block terminates the
\* pool and the server exits; its sockets are closed with it
ServerExit ==
    /\ link.spc \in {"queued", "recv", "reply"}
    /\ link' = [link EXCEPT !.spc = "killed", !.parent = FALSE]
    /\ UNCHANGED <<frame, serverVars, clientVars>>

\* no process of the server holds the connection any more
ServerGone == ~link.parent /\ link.spc \in {"closed", "killed"}

\* client.py line 97: one recv for the welcome message
ClientWelcome ==
    /\ link.cpc = "welcome"
    /\ \E n \in RecvLengths(link.s2c, FALSE) :
           link' = [link EXCEPT !.welcome = Decode(SubSeq(link.s2c, 1, n)),
                                !.s2c = SubSeq(link.s2c, n + 1, Len(link.s2c)),
                                !.cpc = "send"]
    /\ UNCHANGED <<frame, serverVars, clientVars>>

\* client.py lines 101-106
ClientSend ==
    /\ link.cpc = "send"
    /\ LET data == RequestLine(link.operation, link.seq)
       IN  link' = [link EXCEPT !.sent = data,
                                !.c2s = link.c2s \o Encode(data),
                                !.raw_seq = <<>>,
                                !.cpc = "recv"]
    /\ UNCHANGED <<frame, serverVars, clientVars>>

\* the server has closed while bytes it was sent were unread: the connection is reset
Reset == ServerGone /\ link.c2s # <<>>

\* client.py lines 109-115, one pass of the loop: recv returns between 1 and 1024
\* of the bytes in flight, or b"" once the server has closed and every byte is read
ClientRecv ==
    /\ link.cpc = "recv"
    /\ \E n \in RecvLengths(link.s2c, ServerGone /\ ~Reset) :
           LET data == SubSeq(link.s2c, 1, n)
               pass == ReceivePass(link.raw_seq, data)
           IN  link' = [link EXCEPT !.s2c = SubSeq(link.s2c, n + 1, Len(link.s2c)),
                                    !.raw_seq = pass.buffer,
                                    !.cpasses = 1 - link.cpasses,
                                    !.cpc = IF pass.found THEN "decode" ELSE "recv"]
    /\ UNCHANGED <<frame, serverVars, clientVars>>

\* client.py line 110 and lines 128-130, 138-141: the connection is reset, recv
\* raises ConnectionResetError, exit code 8
ClientReset ==
    /\ link.cpc = "recv"
    /\ link.s2c = <<>>
    /\ Reset
    /\ link' = [link EXCEPT !.cpc = "exit", !.code = 8, !.c_end = "fin"]
    /\ UNCHANGED <<frame, serverVars, clientVars>>

\* client.py lines 119-121 and 138-141: the server holds the connection and sends
\* nothing for 300 seconds; recv raises socket.timeout, exit code 5
ClientTimeout ==
    /\ link.cpc = "recv"
    /\ link.s2c = <<>>
    /\ ~ServerGone
    /\ link' = [link EXCEPT !.cpc = "exit", !.code = 5, !.c_end = "fin"]
    /\ UNCHANGED <<frame, serverVars, clientVars>>

\* client.py lines 117, 138-141 and 144-155: decode, close, write the output file
ClientFinish ==
    /\ link.cpc = "decode"
    /\ link' = [link EXCEPT !.out = Decode(link.raw_seq), !.cpc = "done",
                            !.c_end = "fin"]
    /\ UNCHANGED <<frame, serverVars, clientVars>>

InitSession ==
    /\ frame = IdleFrame
    /\ NoServer
    /\ NoClient
    /\ link = StartLink

\* the steps of the pool process that runs handle_request
WorkerStep == StartRequest \/ ServerRecv \/ ServerRecvError \/ Reply

\* the steps of main
MainStep ==
    ClientWelcome \/ ClientSend \/ ClientRecv \/ ClientReset \/ ClientTimeout
        \/ ClientFinish

NextSession ==
    \/ Connect
    \/ PeerClose
    \/ StartRequest
    \/ ServerRecv
    \/ ServerRecvError
    \/ Reply
    \/ ParentRelease
    \/ ServerExit
    \/ ClientWelcome
    \/ ClientSend
    \/ ClientRecv
    \/ ClientReset
    \/ ClientTimeout
    \/ ClientFinish

SpecSession == InitSession /\ [][NextSession]_vars

\* whether a receive loop ends does not depend on how the stream is cut: here
\* every recv returns all the bytes in flight
InitSessionLive ==
    /\ frame = IdleFrame
    /\ NoServer
    /\ NoClient
    /\ link = [StartLink EXCEPT !.whole = TRUE]

\* a process that can take a step takes one: the operating system schedules the
\* pool process and the client, and a blocked recv ends with data or an exception
SpecSessionLive ==
    /\ InitSessionLive
    /\ [][NextSession]_vars
    /\ WF_vars(WorkerStep)
    /\ WF_vars(MainStep)

(***************************************************************************)
(* Reference definitions the core is compared with.                        *)
(***************************************************************************)
IsPermutation(a, n) ==
    /\ Len(a) = n
    /\ \A v \in Range0(n) : Cardinality({i \in 1 .. n : a[i] = v}) = 1

SentinelFree(s) == Count(s, Sentinel) = 0

SuffixAt(s, i) == SubSeq(s, i + 1, Len(s))

\* a < b in lexicographic order, a proper prefix being smaller
RECURSIVE LexLess(_, _)
LexLess(a, b) ==
    IF b = <<>> THEN FALSE
    ELSE IF a = <<>> THEN TRUE
    ELSE IF Head(a) # Head(b) THEN Ord(Head(a)) < Ord(Head(b))
    ELSE LexLess(Tail(a), Tail(b))

\* how many suffixes of s are smaller than the one starting at i
SuffixRank(s, i) ==
    Cardinality({j \in Range0(Len(s)) : LexLess(SuffixAt(s, j), SuffixAt(s, i))})

\* the suffix start offsets in ascending lexicographic order of the suffixes
RefSuffixArray(s) ==
    [r \in 1 .. Len(s) |-> CHOOSE i \in Range0(Len(s)) : SuffixRank(s, i) = r - 1]

\* the reference transform of S: entry i is S'[(SA[i] - 1) mod (n + 1)]
RefTransform(S) ==
    LET s  == S \o <<Sentinel>>
        sa == RefSuffixArray(s)
    IN  [i \in 1 .. Len(s) |-> At(s, (sa[i] - 1) % Len(s))]

Finished(fn) == frame.pc = "done" /\ frame.fn = fn

(***************************************************************************)
(* Claims on the core.                                                     *)
(***************************************************************************)
\* C1: round trip. For every sentinel-free S (the empty one included),
\* revert_burrows_wheeler(burrows_wheeler_conversion(S)) returns S.
C1_RoundTrip ==
    (Finished("revert_burrows_wheeler") /\ frame.chained /\ SentinelFree(frame.origin))
        => frame.result = Returned(frame.origin)

C1_Witness ==
    /\ Finished("revert_burrows_wheeler")
    /\ frame.chained
    /\ frame.origin = <<"C", "A", "C", "A">>
    /\ frame.result.kind = "return"

\* C2: for every sentinel-free S of length n, burrows_wheeler_conversion(S) is the
\* reference transform of S + '$': n + 1 entries, entry i being S'[(SA[i] - 1) mod
\* (n + 1)] for the lexicographically sorted suffix offsets SA; the 20-symbol
\* scenario of the unit test gives "TTTTT$AAAAACCCCCGGGGG".
C2_ReferenceTransform ==
    (Finished("burrows_wheeler_conversion") /\ SentinelFree(frame.arg))
        => /\ frame.result.kind = "return"
           /\ Len(frame.result.value) = Len(frame.arg) + 1
           /\ frame.result.value = RefTransform(frame.arg)
           /\ frame.arg = ScenarioSeq => frame.result.value = ScenarioBwt

C2_Witness ==
    /\ Finished("burrows_wheeler_conversion")
    /\ frame.arg = ScenarioSeq
    /\ frame.result.value = ScenarioBwt

\* C3 as claimed: for every sequence S of length n >= 1, with or without the
\* sentinel (which a sequence holds at most once), build_suffix_array(S) lists the
\* suffix start offsets in ascending lexicographic order of the suffixes themselves.
C3_SuffixOrderAnyInput ==
    (Finished("build_suffix_array") /\ Len(frame.arg) >= 1
        /\ Count(frame.arg, Sentinel) <= 1)
        => frame.result.value = RefSuffixArray(frame.arg)

\* the sentinel occurs exactly once in s, as its last symbol
SentinelTerminated(s) ==
    /\ Len(s) >= 1
    /\ Last(s) = Sentinel
    /\ Count(s, Sentinel) = 1

\* C3 amended: for every sequence S of length n >= 1 that ends with its only
\* sentinel, repeated symbols included, build_suffix_array(S) lists the suffix start
\* offsets in ascending lexicographic order of the suffixes.
C3_SuffixOrder ==
    (Finished("build_suffix_array") /\ SentinelTerminated(frame.arg))
        => /\ frame.result.value = RefSuffixArray(frame.arg)
           /\ \A i, j \in 1 .. Len(frame.arg) :
                  i < j => LexLess(SuffixAt(frame.arg, frame.result.value[i]),
                                   SuffixAt(frame.arg, frame.result.value[j]))

C3_Witness ==
    /\ Finished("build_suffix_array")
    /\ frame.arg = <<"A", "A", "A", "$">>
    /\ frame.result.value = <<3, 2, 1, 0>>

\* C4: suffix_array is a permutation of [0, n) after the initial sort and after
\* every doubling round, and so is the array build_suffix_array returns.
C4_Permutation ==
    /\ frame.pc \in {"loop", "join"} => IsPermutation(frame.suffix_array, Len(frame.seq))
    /\ Finished("build_suffix_array") => IsPermutation(frame.result.value, Len(frame.arg))

C4_Witness ==
    /\ frame.pc = "loop"
    /\ frame.k = 4
    /\ Len(frame.seq) = 4
    /\ frame.suffix_array # ArgSort(SymbolKeys(frame.seq))

\* C5: revert_burrows_wheeler on a transform string with zero sentinels, or with
\* two or more, fails with an error and returns no output sequence.  (The claim
\* names the error SentinelCountError; any raised exception is accepted here.)
C5_SentinelCountError ==
    (Finished("revert_burrows_wheeler") /\ Count(frame.arg, Sentinel) # 1)
        => frame.result.kind = "raise"

\* C6: burrows_wheeler_conversion on a sequence that already contains the sentinel
\* fails with an error and returns no transform string, hence every transform
\* string it returns contains the sentinel exactly once.
C6_SentinelAlreadyPresent ==
    Finished("burrows_wheeler_conversion")
        => /\ ~SentinelFree(frame.arg) => frame.result.kind = "raise"
           /\ frame.result.kind = "return" => Count(frame.result.value, Sentinel) = 1

\* the circular substring of seq that starts at position i and has len symbols
CircularSubstring(seq, i, len) == [j \in 1 .. len |-> At(seq, (i + j - 1) % Len(seq))]

\* C11: after the doubling round run with offset k (the frame then holds 2k), the
\* rank vector orders the positions by their circular substring of length 2k:
\* ranks[i] < ranks[j] exactly when the substring at i is lexicographically smaller
\* than the one at j, ranks[i] = ranks[j] exactly when the two are equal, and
\* suffix_array lists the positions in non-decreasing rank; when the sequence holds
\* the sentinel exactly once the ranks at loop exit are a permutation of 0..n-1.
C11_RankOrder ==
    LET n      == Len(frame.seq)
        sub(i) == CircularSubstring(frame.seq, i, frame.k)
    IN  /\ (frame.pc = "loop" /\ frame.k > 1) =>
               /\ \A i, j \in Range0(n) :
                      /\ (At(frame.ranks, i) < At(frame.ranks, j))
                             <=> LexLess(sub(i), sub(j))
                      /\ (At(frame.ranks, i) = At(frame.ranks, j))
                             <=> (sub(i) = sub(j))
               /\ \A p \in 1 .. (n - 1) :
                      At(frame.ranks, frame.suffix_array[p])
                          <= At(frame.ranks, frame.suffix_array[p + 1])
        /\ (frame.pc = "loop" /\ LoopDone(frame.seq, LoopState(frame))
               /\ Count(frame.seq, Sentinel) = 1)
               => IsPermutation(frame.ranks, n)

\* a round with offset 1 has run and left two positions with the same rank
C11_Witness ==
    /\ frame.pc = "loop"
    /\ frame.seq = <<"A", "C", "A", "C", "$">>
    /\ frame.k = 2
    /\ frame.ranks = <<1, 3, 1, 2, 0>>

\* the while loop without its break: every round k = 1, 2, 4, ... while k < n
RECURSIVE EveryRound(_, _)
EveryRound(seq, st) ==
    IF st.k < Len(seq) THEN EveryRound(seq, DoublingRound(seq, st)) ELSE st

MaxRank(ranks) ==
    CHOOSE m \in {ranks[i] : i \in 1 .. Len(ranks)} :
        \A i \in 1 .. Len(ranks) : ranks[i] <= m

\* the rounds run so far: k is doubled once per round, starting from 1
RECURSIVE Rounds(_)
Rounds(k) == IF k <= 1 THEN 0 ELSE 1 + Rounds(k \div 2)

\* ceil(log2 n) for n >= 1
CeilLog2(n) == CHOOSE r \in 0 .. n : 2 ^ r >= n /\ \A q \in 0 .. (r - 1) : 2 ^ q < n

\* C12: the doubling loop stops after the first round at which the maximum rank
\* equals n-1 (read as the rank of the last suffix-array entry); the suffix array
\* it then holds equals the one obtained by running every round k = 1, 2, 4, ...
\* while k < n; and the loop ends after at most ceil(log2 n) rounds.
C12_EarlyExit ==
    LET n == Len(frame.seq)
    IN  /\ (frame.pc = "loop" /\ frame.k > 1) =>
               /\ frame.broke <=> (MaxRank(frame.ranks) = n - 1)
               /\ MaxRank(frame.ranks) = At(frame.ranks, Last(frame.suffix_array))
        /\ (frame.pc = "loop" /\ n >= 1) => Rounds(frame.k) <= CeilLog2(n)
        /\ (frame.pc = "loop" /\ LoopDone(frame.seq, LoopState(frame))) =>
               frame.suffix_array = EveryRound(frame.seq, InitialSort(frame.seq)).suffix_array
        /\ Finished("build_suffix_array") =>
               frame.result.value = EveryRound(frame.arg, InitialSort(frame.arg)).suffix_array

\* the break is taken while k < n: the early exit skips at least one round
C12_Witness ==
    /\ frame.pc = "loop"
    /\ frame.broke
    /\ frame.k = 2
    /\ Len(frame.seq) = 5

\* how many symbols of T sort before c
Smaller(T, c) == Cardinality({i \in 1 .. Len(T) : Ord(T[i]) < Ord(c)})

\* the sorted copy of T: the symbol c fills the positions from Smaller(T, c) on
RefSorted(T) ==
    [p \in 1 .. Len(T) |->
        CHOOSE c \in {T[i] : i \in 1 .. Len(T)} :
            Smaller(T, c) <= p - 1 /\ p - 1 < Smaller(T, c) + Count(T, c)]

\* C13: for every transform string T of length m (any number of sentinels),
\* map_last_to_first(T) is a permutation of [0, m) with sorted(T)[LF[i]] = T[i] for
\* every i, and LF[i] = (index of the first T[i] in sorted(T)) + (number of T[i] in
\* T[0..i-1]).
C13_LastToFirst ==
    frame.pc = "find" =>
        LET T      == frame.arg
            LF     == frame.last_to_first
            sorted == RefSorted(T)
        IN  /\ IsPermutation(LF, Len(T))
            /\ \A i \in Range0(Len(T)) :
                   /\ At(sorted, At(LF, i)) = At(T, i)
                   /\ At(LF, i) = IndexOf(sorted, <<At(T, i)>>)
                                     + Count(SubSeq(T, 1, i), At(T, i))

C13_Witness ==
    /\ frame.pc = "find"
    /\ frame.arg = <<"A", "$", "A", "$">>
    /\ frame.last_to_first = <<2, 0, 3, 1>>

(***************************************************************************)
(* Claims on the server.                                                   *)
(***************************************************************************)
\* the operation of a request run alone on the request's own sequence
RunAlone(operation, seq_to_convert) ==
    IF operation = BWT THEN burrows_wheeler_conversion(seq_to_convert)
    ELSE revert_burrows_wheeler(seq_to_convert)

\* what a connection that sent the line holds after handle_request ran alone
AloneOutcome(line) ==
    LET parts == Split(SubSeq(line, 1, IndexOf(line, <<"\n">>)), Separator)
    IN  IF Len(parts) # 2 THEN [outbound |-> Welcome, error |-> "ValueError"]
        ELSE LET result == RunAlone(parts[1], parts[2])
             IN  IF result.kind = "return"
                 THEN [outbound |-> Welcome \o Encode(result.value \o <<"\n">>),
                       error    |-> ""]
                 ELSE [outbound |-> Welcome, error |-> result.error]

AloneTable == [line \in RequestLines |-> AloneOutcome(line)]

\* handle_request of connection c has entered a core function
Dispatched(c) ==
    /\ conns[c].phase \in {"compute", "closed"}
    /\ conns[c].error # "ValueError"

Computed(c) == conns[c].phase = "compute" /\ frames[Slot(c)].pc = "done"

\* C7: whatever the number of pool workers and the interleaving of the steps of
\* concurrent requests, each request's result is the result of its operation run
\* alone on its own sequence, and identical requests get identical results.
C7_Isolation ==
    /\ \A c \in Conns :
           /\ Computed(c) =>
                  frames[Slot(c)].result
                      = RunAlone(conns[c].operation, conns[c].seq_to_convert)
           /\ conns[c].phase = "closed" =>
                  /\ conns[c].outbound = AloneTable[conns[c].line].outbound
                  /\ conns[c].error = AloneTable[conns[c].line].error
    /\ \A c, d \in Conns :
           (conns[c].phase = "closed" /\ conns[d].phase = "closed"
               /\ conns[c].line = conns[d].line)
               => conns[c].outbound = conns[d].outbound

\* two invocations are in flight at once, each with its result computed
C7_Witness ==
    /\ n_processes >= 2
    /\ Computed(1)
    /\ Computed(2)
    /\ conns[1].line = RequestLine(BWT, <<"C", "A">>)
    /\ conns[2].line = RequestLine(REVERT, <<"A", "$">>)
    /\ frames[Slot(1)].result = Returned(<<"A", "C", "$">>)
    /\ frames[Slot(2)].result = Returned(<<"A">>)

\* C8: a request whose label is neither BWT nor REVERT is answered with a reported
\* error and never runs the decode routine.
C8_UnknownLabelRejected ==
    \A c \in Conns :
        (Dispatched(c) /\ conns[c].operation \notin {BWT, REVERT})
            => /\ frames[Slot(c)].fn # "revert_burrows_wheeler"
               /\ conns[c].phase = "closed" => conns[c].error # ""

\* C9: the sentinel rule is validated before handle_request invokes the core:
\* burrows_wheeler_conversion gets a sequence without sentinel and
\* revert_burrows_wheeler a sequence with exactly one.
C9_SentinelRuleBeforeCore ==
    \A c \in Conns :
        Dispatched(c) =>
            /\ frames[Slot(c)].fn = "burrows_wheeler_conversion"
                   => SentinelFree(frames[Slot(c)].arg)
            /\ frames[Slot(c)].fn = "revert_burrows_wheeler"
                   => Count(frames[Slot(c)].arg, Sentinel) = 1

(***************************************************************************)
(* Claims on the client.                                                   *)
(***************************************************************************)
\* the text of the file before its first newline, and the text after it
FirstLineEnd(content) ==
    IF \E i \in 1 .. Len(content) : content[i] = "\n"
    THEN CHOOSE i \in 1 .. Len(content) :
             /\ content[i] = "\n"
             /\ \A j \in 1 .. (i - 1) : content[j] # "\n"
    ELSE Len(content) + 1

\* s without the white space around it
Trimmed(s) ==
    LET inked == {i \in 1 .. Len(s) : s[i] \notin {" ", "\n"}}
    IN  IF inked = {} THEN <<>>
        ELSE SubSeq(s, CHOOSE i \in inked : \A j \in inked : i <= j,
                       CHOOSE i \in inked : \A j \in inked : j <= i)

FileHeader(content) == Trimmed(SubSeq(content, 1, FirstLineEnd(content) - 1))

\* the file's sequence, uppercased and with its newlines removed
FileSequence(content) ==
    LET text == Trimmed(SubSeq(content, FirstLineEnd(content) + 1, Len(content)))
        kept == SelectSeq(text, LAMBDA ch : ch # "\n")
    IN  [i \in 1 .. Len(kept) |-> UpperChar(kept[i])]

\* the checks of the claim, in its order, each with its exit code
ClaimedChecks(c) ==
    LET header == FileHeader(c.content)
        seq    == FileSequence(c.content)
    IN  << <<c.port < 1 \/ c.port > 65535, 3>>,
           <<c.host # LocalHost, 4>>,
           <<~(EndsWith(c.file, Txt) \/ EndsWith(c.file, Fasta)), 3>>,
           <<~c.exists, 2>>,
           <<header = <<>> \/ header[1] # ">", 3>>,
           <<Len(seq) = 0, 3>>,
           <<\/ c.operation = BWT /\ Sentinel \in {seq[i] : i \in 1 .. Len(seq)}
             \/ c.operation = REVERT /\ Count(seq, Sentinel) # 1, 3>>,
           <<\E i \in 1 .. Len(seq) : seq[i] \notin Bases, 3>> >>

\* the first check of the list that fails, 0 when none does
FirstFailing(checks) ==
    LET failing == {i \in 1 .. Len(checks) : checks[i][1]}
    IN  IF failing = {} THEN 0
        ELSE CHOOSE i \in failing : \A j \in failing : i <= j

\* C10: validation_client returns (host, port, header, seq) only when every check
\* passes, and exits otherwise with the code of the first failing check in the
\* order port (3), host (4), extension (3), file not found (2), header (3), empty
\* sequence (3), sentinel rule (3), alphabet (3); the returned seq is the file's
\* sequence uppercased with newlines removed.
C10_ValidationOrder ==
    client.pc = "done" =>
        LET checks == ClaimedChecks(client)
            first  == FirstFailing(checks)
        IN  IF first = 0
            THEN /\ client.outcome.kind = "return"
                 /\ client.outcome.value
                        = <<client.host, client.port, FileHeader(client.content),
                            FileSequence(client.content)>>
            ELSE /\ client.outcome.kind = "exit"
                 /\ client.outcome.code = checks[first][2]

C10_Witness ==
    /\ client.pc = "done"
    /\ client.content = <<">", "h", "\n", "A", "\n", "c">>
    /\ client.outcome.kind = "return"
    /\ client.outcome.value[4] = <<"A", "C">>

(***************************************************************************)
(* Claims on the connection.                                               *)
(***************************************************************************)
\* the symbols of s that precede its first newline
BeforeFirstNewline(s) ==
    LET breaks == {i \in 1 .. Len(s) : s[i] = "\n"}
    IN  SubSeq(s, 1, (CHOOSE i \in breaks : \A j \in breaks : i <= j) - 1)

IsPrefix(a, b) == Len(a) <= Len(b) /\ SubSeq(b, 1, Len(a)) = a

\* handle_request has left its receive loop through the break
LoopLeft == link.spc = "reply" \/ (link.spc = "closed" /\ link.error # "socket.error")

\* C14: for every way the request bytes are split into recv chunks of at most 1024
\* bytes, handle_request reassembles exactly the bytes that precede the first
\* newline of the stream and splits them into the operation and the sequence that
\* were sent as '<OPERATION>: <SEQUENCE>\n'; bytes after the first newline are
\* never part of the sequence.
C14_Reassembly ==
    /\ link.spc = "recv" =>
           /\ IsPrefix(link.raw_seq_info, Encode(link.sent))
           /\ IndexOf(link.raw_seq_info, end) = -1
    /\ LoopLeft => link.raw_seq_info = Encode(BeforeFirstNewline(link.sent))
    /\ (link.spc = "closed" /\ link.error # "socket.error" /\ link.framed) =>
           /\ link.s_operation = link.operation
           /\ link.seq_to_convert = link.seq

\* the chunk that held the newline also held a byte that follows it
C14_Witness ==
    /\ link.spc = "closed"
    /\ link.sent = <<"R", "E", "V", "E", "R", "T", ":", " ", "A", "$", "\n", "C", "\n">>
    /\ link.c2s = Encode(<<"\n">>)
    /\ link.seq_to_convert = <<"A", "$">>
    /\ link.result = Returned(<<"A">>)

\* C15: a receive loop always ends: every handle_request invocation eventually
\* leaves its receive loop, closes its connection and returns, also when the client
\* closes the connection before sending a newline; and the client's response loop
\* eventually ends, also when the server closes the connection without sending a
\* result line.
C15_ReceiveLoopsEnd ==
    /\ (link.spc = "recv") ~> (link.spc \in {"closed", "killed"})
    /\ (link.cpc = "recv") ~> (link.cpc \in {"done", "exit"})

\* C16: for every request the server completes successfully, the sequence the
\* client decodes and writes to its output file equals the result string the server
\* computed, for every way the server's byte stream (the welcome message followed by
\* the result and its newline) is split into recv chunks; the server sends exactly
\* one result line per request and none when the operation fails.
C16_ResultDelivered ==
    /\ (link.kind = "main" /\ link.cpc = "done" /\ link.result.kind = "return")
           => link.out = link.result.value
    /\ link.spc = "closed" =>
           link.s_sent = IF link.result.kind = "return"
                         THEN Welcome \o Encode(link.result.value \o <<"\n">>)
                         ELSE Welcome

====
